---- MODULE Spec2Model ----
(***************************************************************************)
(* DocumentEvaluator: the segmenter (DocumentParser.chunk_text), the      *)
(* aggregator (DocumentEvaluation.weighted_average), the retry loop        *)
(* (LLMEvaluator.evaluate_chunk), the orchestrator (evaluate_chunks) and   *)
(* the batch driver (main / evaluate_document).                            *)
(*                                                                         *)
(* A text is a sequence of characters over the alphabet                    *)
(* {"a", " ", ".", "\n"}: a letter, a space, a full stop, a line break.    *)
(***************************************************************************)
EXTENDS Integers, Sequences, FiniteSets, TLC

\* ------------------------------------------------------------------ bounds
\* Longest input text of the segmenter, counted in pieces (see Pieces).
MaxPieces == 4
\* Largest token budget (max_tokens_per_chunk) tried.
MaxBudget == 3
\* Largest max_retries tried.
MaxRetries == 3
\* Most documents a scan returns.
MaxDocs == 2
\* Longest sample list handed to weighted_average, and the largest weight
\* tried besides 10 and 30.
MaxSamples == 2
MaxWeight == 2

\* ------------------------------------------------------------ characters
LETTER == "a"
SP == " "
DOT == "."
NL == "\n"

ParaSep == <<NL, NL>>
SentSep == <<DOT, SP>>

IsSpace(c) == c \in {SP, NL}

\* ------------------------------------------------------- string library
\* s[i..] starts with sep
StartsAt(s, sep, i) ==
    /\ i + Len(sep) - 1 <= Len(s)
    /\ \A k \in 1..Len(sep) : s[i + k - 1] = sep[k]

\* str.split(sep): left to right, non-overlapping, empty fields kept.
RECURSIVE Split(_, _)
Split(s, sep) ==
    LET hits == {i \in 1..Len(s) : StartsAt(s, sep, i)}
    IN  IF hits = {} THEN <<s>>
        ELSE LET i == CHOOSE h \in hits : \A g \in hits : h <= g
             IN  <<SubSeq(s, 1, i - 1)>>
                     \o Split(SubSeq(s, i + Len(sep), Len(s)), sep)

\* sep.join(parts)
RECURSIVE Join(_, _)
Join(parts, sep) ==
    IF Len(parts) = 0 THEN <<>>
    ELSE IF Len(parts) = 1 THEN parts[1]
    ELSE parts[1] \o sep \o Join(Tail(parts), sep)

\* str.strip(): leading and trailing whitespace removed.
Strip(s) ==
    LET keep == {i \in 1..Len(s) : ~IsSpace(s[i])}
    IN  IF keep = {} THEN <<>>
        ELSE LET lo == CHOOSE i \in keep : \A j \in keep : i <= j
                 hi == CHOOSE i \in keep : \A j \in keep : j <= i
             IN  SubSeq(s, lo, hi)

\* c in s
Contains(s, c) == \E i \in 1..Len(s) : s[i] = c

\* ------------------------------------------------------------- tokenizer
\* A token starts at position i of s.  Tokens are: a run of letters together
\* with the one space directly before it, a run of full stops, a run of line
\* breaks, a run of remaining spaces.
TokenStart(s, i) ==
    \/ i = 1
    \/ /\ i > 1
       /\ s[i] # s[i - 1]
       /\ ~(s[i - 1] = SP /\ s[i] = LETTER)
    \/ /\ i > 1
       /\ s[i] = SP /\ s[i - 1] = SP
       /\ i < Len(s) /\ s[i + 1] = LETTER

\* DocumentParser.count_tokens: len(self.encoding.encode(text))
count_tokens(s) == Cardinality({i \in 1..Len(s) : TokenStart(s, i)})

\* ------------------------------------------------------------- segmenter
\* The loop state of chunk_text: the finished chunk texts, the running
\* buffer of units and its accumulated token count.
EmptyAcc == [chunks |-> <<>>, current_chunk |-> <<>>, current_tokens |-> 0]

\* "if current_chunk: chunks.append(sep.join(current_chunk) + tail); reset"
Flush(st, sep, tail) ==
    IF Len(st.current_chunk) > 0
    THEN [chunks |-> Append(st.chunks, Join(st.current_chunk, sep) \o tail),
          current_chunk |-> <<>>,
          current_tokens |-> 0]
    ELSE st

\* current_chunk.append(unit); current_tokens += unit_tokens
Accumulate(st, unit, unit_tokens) ==
    [st EXCEPT !.current_chunk = Append(@, unit),
               !.current_tokens = @ + unit_tokens]

\* One iteration of "for sentence in sentences".
SentenceStep(st, raw, max_tokens) ==
    LET sentence == Strip(raw)
        sentence_tokens == count_tokens(sentence)
    IN  IF Len(sentence) = 0 THEN st
        ELSE Accumulate(
                 IF st.current_tokens + sentence_tokens > max_tokens
                 THEN Flush(st, SentSep, <<DOT>>)
                 ELSE st,
                 sentence, sentence_tokens)

RECURSIVE SentenceLoop(_, _, _)
SentenceLoop(st, sentences, max_tokens) ==
    IF Len(sentences) = 0 THEN st
    ELSE SentenceLoop(SentenceStep(st, Head(sentences), max_tokens),
                      Tail(sentences), max_tokens)

\* Mutation of ParagraphStep: the buffer is flushed already when the next
\* paragraph brings it exactly to the budget.
M_ParagraphStepFlushAtBudget(st, para, max_tokens) ==
    LET para_tokens == count_tokens(para)
    IN  IF para_tokens > max_tokens
        THEN SentenceLoop(Flush(st, ParaSep, <<>>), Split(para, SentSep), max_tokens)
        ELSE Accumulate(
                 IF st.current_tokens + para_tokens >= max_tokens
                 THEN Flush(st, ParaSep, <<>>)
                 ELSE st,
                 para, para_tokens)

\* Mutation of ParagraphStep: the sentences of an over-budget paragraph are
\* accumulated onto the pending buffer, which is not flushed first.
M_ParagraphStepNoFlush(st, para, max_tokens) ==
    LET para_tokens == count_tokens(para)
    IN  IF para_tokens > max_tokens
        THEN SentenceLoop(st, Split(para, SentSep), max_tokens)
        ELSE Accumulate(
                 IF st.current_tokens + para_tokens > max_tokens
                 THEN Flush(st, ParaSep, <<>>)
                 ELSE st,
                 para, para_tokens)

\* One iteration of "for para in paragraphs".
ParagraphStep(st, para, max_tokens) ==
    LET para_tokens == count_tokens(para)
    IN  IF para_tokens > max_tokens
        THEN SentenceLoop(Flush(st, ParaSep, <<>>), Split(para, SentSep), max_tokens)
        ELSE Accumulate(
                 IF st.current_tokens + para_tokens > max_tokens
                 THEN Flush(st, ParaSep, <<>>)
                 ELSE st,
                 para, para_tokens)

RECURSIVE ParagraphLoop(_, _, _)
ParagraphLoop(st, paragraphs, max_tokens) ==
    IF Len(paragraphs) = 0 THEN st
    ELSE ParagraphLoop(ParagraphStep(st, Head(paragraphs), max_tokens),
                       Tail(paragraphs), max_tokens)

\* "Add remaining text as final chunk"
FinalFlush(st) ==
    IF Len(st.current_chunk) > 0
    THEN Append(st.chunks,
                IF ~Contains(st.current_chunk[1], NL)
                THEN Join(st.current_chunk, ParaSep)
                ELSE Join(st.current_chunk, SentSep))
    ELSE st.chunks

\* Mutation of ToDocumentChunks: token_count is the sum of the counts of the
\* paragraphs of the chunk, the separators between them left out.
M_UnitTokenSum(texts) ==
    [i \in 1..Len(texts) |->
        [text |-> texts[i],
         token_count |-> count_tokens(texts[i]) - (Len(Split(texts[i], ParaSep)) - 1),
         chunk_index |-> i - 1,
         total_chunks |-> Len(texts)]]

\* "Convert to DocumentChunk objects"
ToDocumentChunks(texts) ==
    [i \in 1..Len(texts) |->
        [text |-> texts[i],
         token_count |-> count_tokens(texts[i]),
         chunk_index |-> i - 1,
         total_chunks |-> Len(texts)]]

\* "If text fits in one chunk, return it as is"
SingleChunk(t, total_tokens) ==
    <<[text |-> t, token_count |-> total_tokens,
       chunk_index |-> 0, total_chunks |-> 1]>>

\* Mutation of FitsInOneChunk: the shortcut taken only strictly under budget.
M_FitsStrict(total_tokens, max_tokens) == total_tokens < max_tokens

\* "if total_tokens <= self.max_tokens_per_chunk"
FitsInOneChunk(total_tokens, max_tokens) == total_tokens <= max_tokens

\* DocumentParser.chunk_text
chunk_text(t, max_tokens) ==
    LET total_tokens == count_tokens(t)
    IN  IF FitsInOneChunk(total_tokens, max_tokens)
        THEN SingleChunk(t, total_tokens)
        ELSE ToDocumentChunks(
                 FinalFlush(ParagraphLoop(EmptyAcc, Split(t, ParaSep), max_tokens)))

\* ------------------------------------------------------------ input texts
\* The texts are built from these pieces: a word, a word after a space, a
\* new sentence, a new paragraph, a full stop, a space, a paragraph break,
\* a line break inside a paragraph.
Pieces ==
    { <<LETTER>>, <<SP, LETTER>>, <<DOT, SP, LETTER>>, <<NL, NL, LETTER>>,
      <<DOT>>, <<SP>>, <<NL, NL>>, <<NL, LETTER>> }

RECURSIVE TextsOf(_)
TextsOf(n) ==
    IF n = 0 THEN {<<>>}
    ELSE LET shorter == TextsOf(n - 1)
         IN  shorter \cup {t \o p : t \in shorter, p \in Pieces}

Texts == TextsOf(MaxPieces)
Budgets == 1..MaxBudget

\* DocumentParser.__init__ stores max_tokens_per_chunk as given: zero and
\* negative budgets are taken too.
NonPositiveBudgets == {-1, 0}

\* ------------------------------------------------------------ aggregator
\* The seven fields of DocumentEvaluation.
Dims ==
    {"relevance", "factual_accuracy", "clarity", "hallucination",
     "style_match", "rag_usability", "citation_quality"}

\* DocumentEvaluation.from_dict: data.get(key, 0.0) for each field.
from_dict(data) == [d \in Dims |-> IF d \in DOMAIN data THEN data[d] ELSE 0]

\* cls(0, 0, 0, 0, 0, 0, 0); a composite value is the fraction num / den.
ZeroEvaluation == [d \in Dims |-> [num |-> 0, den |-> 1]]

\* sum(weight for _, weight in evaluations)
RECURSIVE TotalWeight(_)
TotalWeight(evaluations) ==
    IF Len(evaluations) = 0 THEN 0
    ELSE Head(evaluations).weight + TotalWeight(Tail(evaluations))

\* Mutation of WeightedSum: each sample overwrites the sum ("=" for "+="),
\* so the sum is the last sample's term.
M_LastSampleOnly(evaluations, key) ==
    IF Len(evaluations) = 0 THEN 0
    ELSE evaluations[Len(evaluations)].evaluation[key]
             * evaluations[Len(evaluations)].weight

\* Mutation of WeightedSum: the values are summed without their weights.
RECURSIVE M_UnweightedSum(_, _)
M_UnweightedSum(evaluations, key) ==
    IF Len(evaluations) = 0 THEN 0
    ELSE Head(evaluations).evaluation[key] + M_UnweightedSum(Tail(evaluations), key)

\* weighted_sums[key] after "for evaluation, weight in evaluations"
RECURSIVE WeightedSum(_, _)
WeightedSum(evaluations, key) ==
    IF Len(evaluations) = 0 THEN 0
    ELSE Head(evaluations).evaluation[key] * Head(evaluations).weight
             + WeightedSum(Tail(evaluations), key)

\* Mutation of Divisor: the plain mean, divided by the number of samples.
M_DivisorCount(evaluations) == Len(evaluations)

\* The divisor of the weighted sums.
Divisor(evaluations) == TotalWeight(evaluations)

\* DocumentEvaluation.weighted_average.  The float division is kept exact:
\* weighted_sums[key] / total_weight is the fraction [num, den].
weighted_average(evaluations) ==
    IF Len(evaluations) = 0
    THEN [raised |-> FALSE, value |-> ZeroEvaluation]
    ELSE IF TotalWeight(evaluations) = 0
    THEN [raised |-> FALSE, value |-> ZeroEvaluation]
    ELSE [raised |-> FALSE,
          value |-> [d \in Dims |->
                        [num |-> WeightedSum(evaluations, d),
                         den |-> Divisor(evaluations)]]]

\* ------------------------------------------------------------ retry loop
\* The replacement fields str.format finds in LLMEvaluator.EVALUATION_PROMPT,
\* in order.  The JSON example of the template is written with single braces,
\* so its "{ ... }" block is a replacement field, whose name is the text up to
\* the first ":" (a line break, two spaces and "relevance" in quotes); the
\* second field is {text}.
PromptFields == <<"\n  \"relevance\"", "text">>

\* str.format(**kwargs) raises KeyError for a field that is no keyword.
FormatRaises(fields, keywords) == \E i \in 1..Len(fields) : fields[i] \notin keywords

\* What one call of client.chat.completions.create can come to:
\*   ok           a response whose content parses to the JSON object `data`
\*   not_object   a response whose content parses to JSON that is no object
\*   rate_limit   RateLimitError
\*   timeout      APITimeoutError
\*   api_error    another APIError, or content that json.loads rejects
\*                (one except clause: "except (APIError, json.JSONDecodeError)")
\*   other        any other exception
RetryableKinds == {"rate_limit", "timeout", "api_error"}
FatalKinds == {"not_object", "other"}

\* The spec's name for the except clause an outcome lands in.
FailureClass(kind) ==
    IF kind = "ok" THEN "ok"
    ELSE IF kind = "rate_limit" THEN "rate_limited"
    ELSE IF kind \in {"timeout", "api_error"} THEN "transient"
    ELSE "fatal"

\* "wait_time = 2 ** attempt" for RateLimitError, "time.sleep(1)" otherwise
Backoff(kind, attempt) == IF kind = "rate_limit" THEN 2 ^ attempt ELSE 1

\* "if attempt < self.max_retries - 1"
MayRetry(attempt, max_retries) == attempt < max_retries - 1

\* The except clause an outcome lands in: the three retrying clauses, or
\* "except Exception" (which also takes what from_dict raises on a non-object).
IsRetried(kind) == kind \in RetryableKinds

\* One iteration of "for attempt in range(self.max_retries)" in
\* evaluate_chunk: return the evaluation, sleep and continue, or raise.
AttemptStep(outcome, attempt, max_tries) ==
    IF outcome.kind = "ok"
    THEN [ctl |-> "return", sleep |-> <<>>, evaluation |-> from_dict(outcome.data)]
    ELSE IF IsRetried(outcome.kind) /\ MayRetry(attempt, max_tries)
    THEN [ctl |-> "continue", sleep |-> <<Backoff(outcome.kind, attempt)>>,
          evaluation |-> "None"]
    ELSE [ctl |-> "raise", sleep |-> <<>>, evaluation |-> "None"]

\* What the remote scorer answers to the call of attempt `attempt` for a
\* chunk: a behaviour is the sequence of its answers, the last one repeated.
Reply(behaviour, attempt) ==
    behaviour[IF attempt + 1 < Len(behaviour) THEN attempt + 1 ELSE Len(behaviour)]

\* "for attempt in range(self.max_retries): ...; return None", from `attempt`
\* on, with the calls made and the sleeps slept so far.
RECURSIVE AttemptLoop(_, _, _, _, _)
AttemptLoop(behaviour, attempt, max_tries, made, slept) ==
    IF ~(attempt < max_tries)
    THEN [ctl |-> "return", evaluation |-> "None", cause |-> "none",
          calls |-> made, sleeps |-> slept]
    ELSE LET outcome == Reply(behaviour, attempt)
             step == AttemptStep(outcome, attempt, max_tries)
         IN  IF step.ctl = "continue"
             THEN AttemptLoop(behaviour, attempt + 1, max_tries, made + 1,
                              slept \o step.sleep)
             ELSE [ctl |-> step.ctl, evaluation |-> step.evaluation,
                   cause |-> FailureClass(outcome.kind),
                   calls |-> made + 1, sleeps |-> slept]

\* LLMEvaluator.evaluate_chunk against a scorer of the given behaviour:
\* "prompt = self.EVALUATION_PROMPT.format(text=chunk.text)", which is outside
\* the try block, then the attempt loop.
evaluate_chunk(behaviour, max_tries) ==
    IF FormatRaises(PromptFields, {"text"})
    THEN [ctl |-> "raise", evaluation |-> "None", cause |-> "fatal",
          calls |-> 0, sleeps |-> <<>>]
    ELSE AttemptLoop(behaviour, 0, max_tries, 0, <<>>)

\* ----------------------------------------------------------- orchestrator
\* Mutation of ChunkFailureAbsorbed: the failure of a chunk leaves the loop.
M_ChunkFailurePropagates == FALSE

\* evaluate_chunks, "except Exception as e: print(...)": the failure of one
\* chunk is logged and the loop goes on (TRUE), it does not leave the loop.
ChunkFailureAbsorbed == TRUE

\* Mutation of IterationOrder: the chunks are taken last to first.
M_ReverseOrder(n, k) == n + 1 - k

\* evaluate_chunks, "for chunk in chunks": the position in the list of the
\* chunk taken in iteration k of n.
IterationOrder(n, k) == k

\* "evaluations_with_weights.append((evaluation, chunk.token_count))"
Sample(evaluation, chunk) == [evaluation |-> evaluation, weight |-> chunk.token_count]

AllChunksFailed == "Failed to evaluate any chunks in the document"
ParseFailed == "Failed to parse Word document"
ChunkFailed == "chunk evaluation failed"

\* Mutation of FinishChunks: no check for an empty sample list.
M_FinishChunksUnguarded(evaluations) ==
    LET r == weighted_average(evaluations)
    IN  [raised |-> r.raised, message |-> "EmptyInput", value |-> r.value,
         aggregated |-> TRUE]

\* The end of evaluate_chunks, after the loop.
FinishChunks(evaluations) ==
    IF Len(evaluations) = 0
    THEN [raised |-> TRUE, message |-> AllChunksFailed, aggregated |-> FALSE]
    ELSE LET r == weighted_average(evaluations)
         IN  [raised |-> r.raised, message |-> "EmptyInput", value |-> r.value,
              aggregated |-> TRUE]

\* Mutation of DocumentFailureCaught: exceptions leave evaluate_document.
M_DocumentFailureEscapes == FALSE

\* evaluate_document, "except Exception as e": every exception of parsing or
\* evaluation becomes an error result (TRUE), none leaves evaluate_document.
DocumentFailureCaught == TRUE

\* The EvaluationResult evaluate_document builds from what the try block
\* came to.
EvaluationResult(filename, r) ==
    IF r.raised
    THEN [filename |-> filename, evaluation |-> "None", status |-> "error",
          error_message |-> r.message]
    ELSE [filename |-> filename, evaluation |-> r.value, status |-> "success",
          error_message |-> "None"]

\* ----------------------------------------------------------- batch inputs
\* --max-retries is click's type=int with no check on its sign.
RetryChoices == -1..MaxRetries

FullFive == [d \in Dims |-> 5]
OnlyRelevance == [d \in {"relevance"} |-> 4]

\* The behaviours of the remote scorer tried for a chunk: it scores at once,
\* it is rate-limited on every call, it times out on every call, it fails
\* with an unexpected exception, or it is rate-limited, then fails with an
\* API error, then answers with an object that has one of the seven keys.
AlwaysScores == << [kind |-> "ok", data |-> FullFive] >>
AlwaysRateLimited == << [kind |-> "rate_limit"] >>
AlwaysTimesOut == << [kind |-> "timeout"] >>
AlwaysUnexpected == << [kind |-> "other"] >>
ScoresThirdTime ==
    << [kind |-> "rate_limit"], [kind |-> "api_error"],
       [kind |-> "ok", data |-> OnlyRelevance] >>

\* It times out, then is rate-limited on every further call.
TimesOutThenRateLimited == << [kind |-> "timeout"], [kind |-> "rate_limit"] >>

Behaviours ==
    {AlwaysScores, AlwaysRateLimited, AlwaysTimesOut, AlwaysUnexpected,
     ScoresThirdTime, TimesOutThenRateLimited}

\* Three paragraphs of 2, 1 and 3 tokens.
LongText ==
    <<LETTER, SP, LETTER>> \o ParaSep \o <<LETTER>> \o ParaSep
        \o <<LETTER, SP, LETTER, SP, LETTER>>

\* A file python-docx cannot open, a document without text, a long document.
DocChoices ==
    { [readable |-> FALSE, text |-> <<>>],
      [readable |-> TRUE, text |-> <<>>],
      [readable |-> TRUE, text |-> LongText] }

\* What scanner.scan can return: sorted paths, here numbered 1..n.
DocLists ==
    UNION { { [i \in 1..n |-> [name |-> i, readable |-> f[i].readable,
                               text |-> f[i].text]] :
                f \in [1..n -> DocChoices] } : n \in 0..MaxDocs }

\* ------------------------------------------------------------------ state
VARIABLES
    \* DocumentParser
    text,          \* the text handed to chunk_text
    budget,        \* DocumentParser.max_tokens_per_chunk
    chunks,        \* the list chunk_text returned
    segPc,         \* "ready" before the call of chunk_text, "done" after it
    \* DocumentEvaluation.weighted_average
    samples,       \* the (evaluation, weight) list handed to weighted_average
    average,       \* what weighted_average came to
    aggPc,         \* "ready" before the call, "done" after it
    \* main
    mainPc,        \* "config", "scan", "batch", "done", "aborted_*"
    mainError,     \* what main's except clauses caught: "none", "config", "scan"
    max_retries,   \* LLMEvaluator.max_retries
    documents,     \* what scanner.scan returned
    results,       \* main's results list
    docIdx,        \* the document the batch loop is at
    \* evaluate_document / evaluate_chunks
    docPc,         \* "parse" before parser.parse, "eval" inside evaluate_chunks
    doc_chunks,    \* the chunks of the current document
    chunkIdx,      \* the chunk the loop of evaluate_chunks is at
    evaluations_with_weights,
    \* the remote scorer
    scorer,        \* per chunk of the current document, its behaviour
    \* what was observed of the chunk and document handled last
    calls,         \* remote calls made for the chunk
    sleeps,        \* the time.sleep arguments for the chunk, in order
    chunkStatus,   \* "none", "scored", "failed", "no_score"
    docLog,        \* per chunk handled: chunk_index, status, cause, calls, evaluation
    aggInvoked     \* weighted_average was called for the document

segVars == <<text, chunks, segPc>>
aggVars == <<samples, average, aggPc>>
chunkObs == <<calls, sleeps, chunkStatus>>
docVars == <<docPc, doc_chunks, chunkIdx, evaluations_with_weights, scorer,
             docLog, aggInvoked>>
mainVars == <<mainPc, mainError, max_retries, documents, results, docIdx>>
pipeVars == <<mainVars, docVars, chunkObs>>
vars == <<segVars, budget, aggVars, pipeVars>>

\* ---------------------------------------------------------- segmenter run
SegIdle == text = <<>> /\ chunks = <<>> /\ segPc = "idle"
AggIdle == samples = <<>> /\ average = "None" /\ aggPc = "idle"
PipeIdle ==
    /\ mainPc = "idle" /\ mainError = "none"
    /\ max_retries = 0 /\ documents = <<>> /\ results = <<>>
    /\ docIdx = 1 /\ docPc = "parse" /\ doc_chunks = <<>> /\ chunkIdx = 1
    /\ evaluations_with_weights = <<>> /\ scorer = <<>>
    /\ calls = 0 /\ sleeps = <<>> /\ chunkStatus = "none"
    /\ docLog = <<>> /\ aggInvoked = FALSE

SegInit ==
    /\ text \in Texts
    /\ budget \in Budgets \cup NonPositiveBudgets
    /\ chunks = <<>>
    /\ segPc = "ready"
    /\ AggIdle /\ PipeIdle

\* parser.chunk_text(text)
ChunkText ==
    /\ segPc = "ready"
    /\ chunks' = chunk_text(text, budget)
    /\ segPc' = "done"
    /\ UNCHANGED <<text, budget, aggVars, pipeVars>>

SegNext == ChunkText

SpecSeg == SegInit /\ [][SegNext]_vars

\* --------------------------------------------------------- aggregator run
SampleEvaluations ==
    { [d \in Dims |-> 5], [d \in Dims |-> 0],
      [d \in Dims |-> IF d = "relevance" THEN 4 ELSE IF d = "clarity" THEN 1 ELSE 0] }

SampleWeights == (0..MaxWeight) \cup {10, 30}

SampleSet == [evaluation : SampleEvaluations, weight : SampleWeights]

SampleLists == UNION { [1..n -> SampleSet] : n \in 0..MaxSamples }

AggInit ==
    /\ samples \in SampleLists
    /\ average = "None"
    /\ aggPc = "ready"
    /\ budget = 1
    /\ SegIdle /\ PipeIdle

\* DocumentEvaluation.weighted_average(samples)
WeightedAverage ==
    /\ aggPc = "ready"
    /\ average' = weighted_average(samples)
    /\ aggPc' = "done"
    /\ UNCHANGED <<samples, budget, segVars, pipeVars>>

AggNext == WeightedAverage

SpecAgg == AggInit /\ [][AggNext]_vars

\* --------------------------------------------------------------- batch run
\* main takes DocumentParser's default budget (4000); the batch is run with
\* every budget of Budgets, against the short documents of DocChoices.
Init ==
    /\ mainPc = "config" /\ mainError = "none"
    /\ max_retries \in RetryChoices
    /\ budget \in Budgets
    /\ documents = <<>> /\ results = <<>> /\ docIdx = 1
    /\ docPc = "parse" /\ doc_chunks = <<>> /\ chunkIdx = 1
    /\ evaluations_with_weights = <<>> /\ scorer = <<>>
    /\ calls = 0 /\ sleeps = <<>> /\ chunkStatus = "none"
    /\ docLog = <<>> /\ aggInvoked = FALSE
    /\ SegIdle /\ AggIdle

\* Mutation of LoadConfig: the configuration error is reported and the run
\* goes on to the scan.
M_LoadConfigErrorIgnored ==
    /\ mainPc = "config"
    /\ \E ok \in BOOLEAN :
           /\ mainPc' = "scan"
           /\ mainError' = IF ok THEN "none" ELSE "config"
    /\ UNCHANGED <<max_retries, documents, results, docIdx, docVars, chunkObs,
                   budget, segVars, aggVars>>

\* main: AzureOpenAIConfig.from_args returns, or raises ValueError, which
\* "except ValueError" turns into click.Abort.
LoadConfig ==
    /\ mainPc = "config"
    /\ \E ok \in BOOLEAN :
           /\ mainPc' = IF ok THEN "scan" ELSE "aborted_config"
           /\ mainError' = IF ok THEN "none" ELSE "config"
    /\ UNCHANGED <<max_retries, documents, results, docIdx, docVars, chunkObs,
                   budget, segVars, aggVars>>

\* main: scanner.scan returns the documents, or raises; "if not documents:
\* return".
Scan ==
    /\ mainPc = "scan"
    /\ \/ /\ mainPc' = "aborted_scan"
          /\ mainError' = "scan"
          /\ UNCHANGED documents
       \/ \E found \in DocLists :
              /\ documents' = found
              /\ mainPc' = IF Len(found) = 0 THEN "done" ELSE "batch"
              /\ UNCHANGED mainError
    /\ UNCHANGED <<max_retries, results, docIdx, docVars, chunkObs,
                   budget, segVars, aggVars>>

\* The end of evaluate_document with what its try block came to, and the
\* step of main's loop after it; after the last document main writes the
\* results and ends.  An exception that evaluate_document does not catch
\* reaches main's "except Exception", which aborts the run.
DocumentEnds(r) ==
    /\ docPc' = "parse"
    /\ IF r.raised /\ ~DocumentFailureCaught
       THEN /\ mainPc' = "aborted_batch"
            /\ UNCHANGED <<results, docIdx>>
       ELSE /\ results' = Append(results, EvaluationResult(documents[docIdx].name, r))
            /\ docIdx' = docIdx + 1
            /\ mainPc' = IF docIdx = Len(documents) THEN "done" ELSE "batch"

\* evaluate_document: parser.parse(doc_path), which raises on a file it
\* cannot open and returns the chunks otherwise.  The behaviour the remote
\* scorer will show for each chunk is fixed here.
ParseDocument ==
    /\ mainPc = "batch" /\ docPc = "parse"
    /\ LET doc == documents[docIdx]
           parsed == IF doc.readable THEN chunk_text(doc.text, budget) ELSE <<>>
       IN  /\ doc_chunks' = parsed
           /\ chunkIdx' = 1
           /\ evaluations_with_weights' = <<>>
           /\ docLog' = <<>> /\ aggInvoked' = FALSE
           /\ calls' = 0 /\ sleeps' = <<>> /\ chunkStatus' = "none"
           /\ IF ~doc.readable
              THEN DocumentEnds([raised |-> TRUE, message |-> ParseFailed])
              ELSE IF Len(parsed) = 0
              THEN DocumentEnds(FinishChunks(<<>>))
              ELSE /\ docPc' = "eval"
                   /\ UNCHANGED <<mainPc, results, docIdx>>
           /\ scorer' \in [1..Len(parsed) -> Behaviours]
    /\ UNCHANGED <<mainError, max_retries, documents, budget, segVars, aggVars>>

\* One iteration of "for chunk in chunks" in evaluate_chunks: evaluate_chunk
\* for the chunk, the sample kept "if evaluation", the exception absorbed;
\* after the last chunk, the end of evaluate_chunks and of evaluate_document.
EvaluateChunk ==
    /\ mainPc = "batch" /\ docPc = "eval"
    /\ LET pos == IterationOrder(Len(doc_chunks), chunkIdx)
           chunk == doc_chunks[pos]
           r == evaluate_chunk(scorer[pos], max_retries)
           status == IF r.ctl = "raise" THEN "failed"
                     ELSE IF r.cause # "ok" THEN "no_score"
                     ELSE "scored"
           kept == IF status = "scored"
                   THEN Append(evaluations_with_weights, Sample(r.evaluation, chunk))
                   ELSE evaluations_with_weights
       IN  /\ calls' = r.calls
           /\ sleeps' = r.sleeps
           /\ chunkStatus' = status
           /\ docLog' = Append(docLog, [chunk_index |-> chunk.chunk_index,
                                        status |-> status, cause |-> r.cause,
                                        calls |-> r.calls,
                                        evaluation |-> r.evaluation])
           /\ evaluations_with_weights' = kept
           /\ chunkIdx' = chunkIdx + 1
           /\ IF status = "failed" /\ ~ChunkFailureAbsorbed
              THEN /\ DocumentEnds([raised |-> TRUE, message |-> ChunkFailed])
                   /\ UNCHANGED aggInvoked
              ELSE IF chunkIdx < Len(doc_chunks)
              THEN UNCHANGED <<docPc, aggInvoked, mainPc, results, docIdx>>
              ELSE /\ aggInvoked' = FinishChunks(kept).aggregated
                   /\ DocumentEnds(FinishChunks(kept))
    /\ UNCHANGED <<mainError, max_retries, documents, doc_chunks, scorer, budget,
                   segVars, aggVars>>

Next ==
    \/ LoadConfig
    \/ Scan
    \/ ParseDocument
    \/ EvaluateChunk

Spec == Init /\ [][Next]_vars

\* evaluate_chunks is a sequential loop: once it has been entered, the next
\* iteration runs.
SpecFair == Spec /\ WF_vars(EvaluateChunk)

\* --------------------------------------------------- segmenter properties
\* The non-blank sentences of a paragraph: split on ". ", stripped, without
\* the full stops that end them.
RECURSIVE DropTrailingDots(_)
DropTrailingDots(s) ==
    IF Len(s) > 0 /\ s[Len(s)] = DOT THEN DropTrailingDots(SubSeq(s, 1, Len(s) - 1))
    ELSE s

SentencesOf(para) ==
    LET raw == Split(para, SentSep)
        norm == [i \in 1..Len(raw) |-> DropTrailingDots(Strip(raw[i]))]
    IN  SelectSeq(norm, LAMBDA u : Len(u) > 0)

\* The paragraphs of a text, each as its sentences; blank paragraphs dropped.
StructureOf(t) ==
    LET paras == Split(t, ParaSep)
        sents == [i \in 1..Len(paras) |-> SentencesOf(paras[i])]
    IN  SelectSeq(sents, LAMBDA p : Len(p) > 0)

\* The chunk texts joined in index order, with seps[i] after chunk i.
RECURSIVE JoinWith(_, _)
JoinWith(parts, seps) ==
    IF Len(parts) = 0 THEN <<>>
    ELSE IF Len(parts) = 1 THEN parts[1]
    ELSE parts[1] \o seps[1] \o JoinWith(Tail(parts), Tail(seps))

ChunkTexts == [i \in 1..Len(chunks) |-> chunks[i].text]

\* A chunk text that is a single unit: one paragraph of at most one sentence.
IsOneSentence(t) ==
    /\ Len(Split(t, ParaSep)) = 1
    /\ Len(SentencesOf(t)) <= 1

\* C1: for a positive budget, every chunk chunk_text returns has
\* count_tokens(chunk.text) <= budget, unless the chunk is exactly one
\* sentence that alone exceeds the budget.
C1_ChunkWithinBudget ==
    (segPc = "done" /\ budget >= 1) =>
        \A i \in 1..Len(chunks) :
            \/ count_tokens(chunks[i].text) <= budget
            \/ IsOneSentence(chunks[i].text)

\* C2: the chunk texts re-joined in index order, with a paragraph or a
\* sentence separator between consecutive chunks, have the paragraphs and
\* sentences of the source, in the same order.
C2_RejoinReconstructs ==
    segPc = "done" =>
        \E seps \in [1..(Len(chunks) - 1) -> {ParaSep, SentSep}] :
            StructureOf(JoinWith(ChunkTexts, seps)) = StructureOf(text)

\* C3: a text whose token count is within the budget comes back as exactly
\* one chunk, the whole text unchanged, with chunk_index 0 and total_chunks 1.
C3_SingleChunkShortcut ==
    (segPc = "done" /\ count_tokens(text) <= budget) =>
        /\ Len(chunks) = 1
        /\ chunks[1].text = text
        /\ chunks[1].chunk_index = 0
        /\ chunks[1].total_chunks = 1

\* C3 witness: a text of two paragraphs that fits the budget exactly and was
\* returned as one chunk.
C3_Witness ==
    /\ segPc = "done"
    /\ count_tokens(text) = budget
    /\ Len(Split(text, ParaSep)) = 2
    /\ Len(chunks) = 1 /\ chunks[1].text = text

\* C11: chunk_text("") returns the empty list: no chunk, no chunk with an
\* empty text.
C11_EmptyTextNoChunks ==
    (segPc = "done" /\ text = <<>>) => chunks = <<>>

\* C15: with max_tokens_per_chunk <= 0 chunk_text produces no chunk.
C15_NonPositiveBudgetRejected ==
    (segPc = "done" /\ budget <= 0) => Len(chunks) = 0

\* C17: in the list chunk_text returns, the chunk at position i has
\* chunk_index i (from 0), every chunk has total_chunks = the length of the
\* list, and token_count is count_tokens of the chunk's own text.
C17_ChunkStamps ==
    segPc = "done" =>
        \A i \in 1..Len(chunks) :
            /\ chunks[i].chunk_index = i - 1
            /\ chunks[i].total_chunks = Len(chunks)
            /\ chunks[i].token_count = count_tokens(chunks[i].text)

\* C17 witness: two chunks, the first of two one-token paragraphs joined by a
\* paragraph break, which makes three tokens.
C17_Witness ==
    /\ segPc = "done" /\ budget = 2
    /\ Len(chunks) = 2
    /\ chunks[1].text = <<LETTER>> \o ParaSep \o <<LETTER>>
    /\ chunks[1].token_count = 3
    /\ chunks[2].chunk_index = 1

C19_BlankParagraphDropped ==
    (segPc = "done" /\ budget >= 1 /\ count_tokens(text) > budget) =>
        \A i \in 1..Len(chunks) :
            LET units == Split(chunks[i].text, ParaSep)
            IN  \A k \in 1..Len(units) : Len(Strip(units[k])) > 0

\* The paragraphs of the text, and the loop state of chunk_text before
\* paragraph k.
Paragraphs == Split(text, ParaSep)
AccBefore(k) == ParagraphLoop(EmptyAcc, SubSeq(Paragraphs, 1, k - 1), budget)

\* The loop state before sentence j of the over-budget paragraph k.
AccBeforeSentence(k, j) ==
    SentenceLoop(Flush(AccBefore(k), ParaSep, <<>>),
                 SubSeq(Split(Paragraphs[k], SentSep), 1, j - 1), budget)

\* The step from st to st2 flushed the buffer / added unit `unit` to it.
Flushed(st, st2) == Len(st2.chunks) > Len(st.chunks)
AddedTo(st, st2, unit) == st2.current_chunk = Append(st.current_chunk, unit)

\* C20: the running buffer is flushed exactly when it is not empty and its
\* token count plus the next unit's is strictly greater than the budget; a
\* unit that brings the count exactly to the budget joins the buffer.  For
\* paragraphs within the budget and for the sentences of the others.
C20_FlushOnlyWhenOver ==
    (segPc = "done" /\ budget >= 1 /\ count_tokens(text) > budget) =>
        \A k \in 1..Len(Paragraphs) :
            LET para == Paragraphs[k]
                st == AccBefore(k)
            IN  IF count_tokens(para) <= budget
                THEN LET st2 == ParagraphStep(st, para, budget)
                     IN  /\ Flushed(st, st2) <=>
                                (/\ Len(st.current_chunk) > 0
                                 /\ st.current_tokens + count_tokens(para) > budget)
                         /\ ~Flushed(st, st2) => AddedTo(st, st2, para)
                ELSE \A j \in 1..Len(Split(para, SentSep)) :
                         LET sentence == Strip(Split(para, SentSep)[j])
                             sb == AccBeforeSentence(k, j)
                             sb2 == SentenceStep(sb, Split(para, SentSep)[j], budget)
                         IN  Len(sentence) > 0 =>
                                 /\ Flushed(sb, sb2) <=>
                                        (/\ Len(sb.current_chunk) > 0
                                         /\ sb.current_tokens + count_tokens(sentence) > budget)
                                 /\ ~Flushed(sb, sb2) => AddedTo(sb, sb2, sentence)

\* C20 witness: two paragraphs that together come exactly to the budget, in a
\* text over the budget, returned as one chunk.
C20_Witness ==
    /\ segPc = "done" /\ budget >= 1 /\ count_tokens(text) > budget
    /\ Len(Paragraphs) = 2
    /\ AccBefore(2).current_tokens >= 1
    /\ AccBefore(2).current_tokens + count_tokens(Paragraphs[2]) = budget
    /\ Len(chunks) = 1 /\ chunks[1].text = text

\* The stripped sentences of a paragraph.
StrippedSentences(para) ==
    {Strip(Split(para, SentSep)[j]) : j \in 1..Len(Split(para, SentSep))}

\* C21: when a paragraph alone exceeds the budget, the pending buffer is
\* flushed as a chunk of its own before any sentence of the paragraph is
\* accumulated: that chunk is exactly the buffer, and what the buffer holds
\* after the paragraph are sentences of the paragraph only.
C21_OversizeFlushesFirst ==
    (segPc = "done" /\ count_tokens(text) > budget) =>
        \A k \in 1..Len(Paragraphs) :
            LET para == Paragraphs[k]
                st == AccBefore(k)
                st2 == ParagraphStep(st, para, budget)
                n == Len(st.chunks)
            IN  count_tokens(para) > budget =>
                    /\ Len(st.current_chunk) > 0 =>
                           /\ Len(chunks) >= n + 1
                           /\ chunks[n + 1].text = Join(st.current_chunk, ParaSep)
                    /\ \A u \in 1..Len(st2.current_chunk) :
                           st2.current_chunk[u] \in StrippedSentences(para)

\* C21 witness: a one-word paragraph, then a paragraph of two sentences that
\* is over the budget; the word is a chunk of its own.
C21_Witness ==
    /\ segPc = "done" /\ budget = 2
    /\ text = <<LETTER>> \o ParaSep \o <<LETTER>> \o SentSep \o <<LETTER, SP, LETTER>>
    /\ ChunkTexts = << <<LETTER>>, <<LETTER, DOT>>, <<LETTER, SP, LETTER>> >>

\* ------------------------------------------------- retry loop properties
\* f[1] + ... + f[n]
RECURSIVE SumTo(_, _)
SumTo(f, n) == IF n = 0 THEN 0 ELSE f[n] + SumTo(f, n - 1)

\* evaluate_chunk has ended for the chunk handled last, whose scorer
\* behaviour is LastBehaviour.
ChunkEnded == Len(docLog) > 0
LastBehaviour == scorer[Len(docLog)]

\* C4: against a scorer that raises RateLimited on every call, evaluate_chunk
\* with max_retries = n >= 1 makes exactly n calls and then fails; it sleeps
\* 2^0, ..., 2^(n-2) seconds between the attempts and not after the last one
\* (for n = 3, 3 seconds in all).
C4_RateLimitExhaustion ==
    (ChunkEnded /\ LastBehaviour = AlwaysRateLimited /\ max_retries >= 1) =>
        /\ chunkStatus = "failed"
        /\ calls = max_retries
        /\ sleeps = [i \in 1..(max_retries - 1) |-> 2 ^ (i - 1)]
        /\ (max_retries = 3 => SumTo(sleeps, Len(sleeps)) >= 2 ^ 0 + 2 ^ 1)

\* C5: a Fatal failure of the first call leaves exactly 1 call and no sleep
\* and fails the chunk at once.
C5_FatalShortCircuit ==
    (ChunkEnded /\ LastBehaviour = AlwaysUnexpected /\ max_retries >= 1) =>
        /\ chunkStatus = "failed"
        /\ docLog[Len(docLog)].cause = "fatal"
        /\ calls = 1
        /\ sleeps = <<>>

\* The behaviour fails every one of the first n calls with a failure that
\* is retried.
RetriedThroughout(behaviour, n) ==
    \A a \in 0..(n - 1) : Reply(behaviour, a).kind \in RetryableKinds

\* The sleep after a retried failure of the given kind at attempt index i:
\* 2^i seconds after RateLimited, 1 second after Transient.
ClaimedSleep(kind, i) == IF kind = "rate_limit" THEN 2 ^ i ELSE 1

\* C13: when every attempt fails with RateLimited or Transient, in any mix,
\* the failure at attempt index i < max_retries - 1 is followed by a sleep of
\* 2^i seconds (RateLimited) or 1 second (Transient) and by attempt i + 1;
\* the failure at index max_retries - 1 is terminal.
C13_BackoffSchedule ==
    ( /\ ChunkEnded
      /\ max_retries >= 1
      /\ RetriedThroughout(LastBehaviour, max_retries) ) =>
        /\ calls = max_retries
        /\ sleeps = [i \in 1..(max_retries - 1) |->
                        ClaimedSleep(Reply(LastBehaviour, i - 1).kind, i - 1)]
        /\ chunkStatus = "failed"

\* C14: with max_retries = 1 evaluate_chunk makes exactly one remote call; a
\* failure of that call, of any class, is terminal and no sleep is made.
C14_SingleAttempt ==
    (ChunkEnded /\ max_retries = 1) =>
        /\ calls = 1
        /\ sleeps = <<>>
        /\ Reply(LastBehaviour, 0).kind # "ok" => chunkStatus = "failed"

\* C16: a response that is no JSON object with exactly the seven keys is a
\* Transient failure.  Against the scorer that is rate-limited, then fails
\* with an API error, then answers with an object that has one key only,
\* max_retries = 3 gives three calls, sleeps of 1 and 1 second, a failed
\* chunk and no score.
C16_MalformedResponseIsTransient ==
    (ChunkEnded /\ LastBehaviour = ScoresThirdTime /\ max_retries = 3) =>
        /\ calls = 3
        /\ sleeps = <<ClaimedSleep("rate_limit", 0), ClaimedSleep("api_error", 1)>>
        /\ chunkStatus = "failed"
        /\ docLog[Len(docLog)].status # "scored"

\* C25: the first call that succeeds ends the attempt loop: no call and no
\* sleep follows it, and the score returned is the one of that call.  A
\* scorer that answers at once gives one call and no sleep; a scorer that
\* fails twice and then answers gives three calls, two sleeps and the score
\* of the third call.
C25_FirstSuccessEndsLoop ==
    (ChunkEnded /\ max_retries >= 1) =>
        /\ LastBehaviour = AlwaysScores =>
               /\ calls = 1 /\ sleeps = <<>>
               /\ chunkStatus = "scored"
               /\ docLog[Len(docLog)].evaluation = from_dict(FullFive)
        /\ (LastBehaviour = ScoresThirdTime /\ max_retries >= 3) =>
               /\ calls = 3 /\ Len(sleeps) = 2
               /\ chunkStatus = "scored"
               /\ docLog[Len(docLog)].evaluation = from_dict(OnlyRelevance)

\* ----------------------------------------------- orchestrator properties
\* C12: evaluate_chunks takes the chunks strictly in index order, one at a
\* time: the k-th chunk handled is the chunk of index k - 1, a chunk is
\* started only after the one before it has ended, and when evaluate_chunks
\* ends every chunk of the list has been attempted exactly once.
C12_ChunksInIndexOrder ==
    /\ \A k \in 1..Len(docLog) : docLog[k].chunk_index = k - 1
    /\ docPc = "eval" =>
           /\ Len(docLog) = chunkIdx - 1
           /\ chunkIdx <= Len(doc_chunks)
    /\ (docPc = "parse" /\ Len(docLog) > 0) => Len(docLog) = Len(doc_chunks)

\* C12 witness: a document of three chunks has been evaluated, the third
\* chunk last, under scorer behaviours of three kinds.
C12_Witness ==
    /\ docPc = "parse" /\ Len(doc_chunks) = 3 /\ Len(docLog) = 3
    /\ docLog[3].chunk_index = 2
    /\ scorer = <<AlwaysScores, TimesOutThenRateLimited, AlwaysUnexpected>>

\* evaluate_chunks has ended for the document whose chunks docLog describes;
\* its outcome is the last of results.
DocumentEvaluated == docPc = "parse" /\ Len(docLog) > 0

LastResult == results[Len(results)]

\* The chunks the scorer scores at once, and those it fails on every call
\* with a failure that is retried.
WillScore == {i \in 1..Len(scorer) : scorer[i] = AlwaysScores}
WillExhaust == {i \in 1..Len(scorer) : scorer[i] \in {AlwaysRateLimited, AlwaysTimesOut}}

\* The sum of g[i] over the indices i in S.
RECURSIVE SumOver(_, _)
SumOver(S, g) ==
    IF S = {} THEN 0
    ELSE LET i == CHOOSE x \in S : TRUE IN g[i] + SumOver(S \ {i}, g)

ScoredWeight == SumOver(WillScore, [i \in WillScore |-> doc_chunks[i].token_count])
ScoredSum(d) ==
    SumOver(WillScore, [i \in WillScore |->
                           from_dict(FullFive)[d] * doc_chunks[i].token_count])

\* C6: a document of several chunks of which some are scored and the others
\* exhaust their retries is a success; every chunk was attempted, and the
\* composite is the token-weighted average of the scored chunks alone.
C6_PartialFailureTolerated ==
    ( /\ DocumentEvaluated
      /\ max_retries >= 1
      /\ Len(doc_chunks) >= 2
      /\ WillScore # {}
      /\ WillScore \cup WillExhaust = 1..Len(doc_chunks)
      /\ ScoredWeight > 0 ) =>
        /\ Len(docLog) = Len(doc_chunks)
        /\ LastResult.status = "success"
        /\ \A d \in Dims :
            /\ LastResult.evaluation[d].den > 0
            /\ LastResult.evaluation[d].num * ScoredWeight
                   = ScoredSum(d) * LastResult.evaluation[d].den

\* C26: with max_retries <= 0 evaluate_chunk makes no remote call and
\* returns None without raising; no sample is recorded, and a document of at
\* least one chunk ends as an error with the all-chunks-failed message.
C26_NoAttemptsReturnsNone ==
    (ChunkEnded /\ max_retries <= 0) =>
        /\ calls = 0 /\ sleeps = <<>>
        /\ chunkStatus = "no_score"
        /\ evaluations_with_weights = <<>>
        /\ DocumentEvaluated =>
               /\ LastResult.status = "error"
               /\ LastResult.error_message = AllChunksFailed

\* C24: an unexpected failure while scoring one chunk does not abort the
\* document: every chunk of the list is still attempted, and the document is
\* a success when another chunk is scored.
C24_FatalChunkSkipped ==
    ( /\ DocumentEvaluated
      /\ max_retries >= 1
      /\ Len(doc_chunks) >= 2
      /\ \E i \in 1..Len(scorer) : scorer[i] = AlwaysUnexpected
      /\ WillScore # {} ) =>
        /\ Len(docLog) = Len(doc_chunks)
        /\ LastResult.status = "success"

\* The remote calls made for the chunks of the document handled so far.
TotalCalls == SumOver(1..Len(docLog), [k \in 1..Len(docLog) |-> docLog[k].calls])

\* The remote calls a chunk can get: the length of range(max_retries).
AttemptBound == IF max_retries > 0 THEN max_retries ELSE 0

\* At most `bound` remote calls for a chunk and at most len(chunks) * bound
\* for the document; evaluate_chunks ends with a composite score or with the
\* all-chunks-failed error.
CallsBounded(bound) ==
    /\ \A k \in 1..Len(docLog) : docLog[k].calls <= bound
    /\ TotalCalls <= Len(doc_chunks) * bound
    /\ DocumentEvaluated =>
           \/ LastResult.status = "success" /\ aggInvoked
           \/ /\ LastResult.status = "error"
              /\ LastResult.error_message = AllChunksFailed
              /\ LastResult.evaluation = "None"

\* Outside the loop of evaluate_chunks every chunk parsed has been handled.
AllChunksHandled == docPc = "parse" => Len(docLog) = Len(doc_chunks)

\* evaluate_chunks, whenever entered, comes to its end: the run is outside
\* its loop again and again, with every chunk handled.
ChunksLoopEnds == []AllChunksHandled /\ []<>(docPc = "parse")

\* C27 as stated: for every chunk list, every max_retries and every behaviour
\* of the scorer, evaluate_chunks terminates, with a composite score or the
\* all-chunks-failed error, after at most max_retries remote calls per chunk
\* and at most len(chunks) * max_retries in total.
C27_TerminatesWithinCallBound ==
    /\ []CallsBounded(max_retries)
    /\ ChunksLoopEnds

\* C27, amended: the same with max(0, max_retries) in place of max_retries,
\* since a negative max_retries makes no call, which is more than
\* max_retries.
C27_TerminatesWithinAttemptBound ==
    /\ []CallsBounded(AttemptBound)
    /\ ChunksLoopEnds

\* C27 witness: the three chunks of a document have been handled under
\* max_retries = 3 and the document has its outcome.
C27_Witness ==
    /\ DocumentEvaluated /\ max_retries = 3
    /\ Len(doc_chunks) = 3 /\ Len(docLog) = 3
    /\ TotalCalls <= 9
    /\ LastResult.error_message = AllChunksFailed

\* C7: a document whose chunks all exhaust their retries is an error with the
\* all-chunks-failed message and no evaluation; every chunk was attempted and
\* weighted_average is not called.
C7_TotalFailure ==
    ( /\ DocumentEvaluated
      /\ max_retries >= 1
      /\ WillExhaust = 1..Len(doc_chunks) ) =>
        /\ Len(docLog) = Len(doc_chunks)
        /\ \A i \in 1..Len(docLog) : docLog[i].status = "failed"
        /\ LastResult.status = "error"
        /\ LastResult.error_message = AllChunksFailed
        /\ LastResult.evaluation = "None"
        /\ ~aggInvoked

\* C7 witness: three chunks, the scorer rate-limited or timing out on each,
\* max_retries = 3, and the document is an error.
C7_Witness ==
    /\ DocumentEvaluated
    /\ max_retries = 3
    /\ Len(doc_chunks) = 3 /\ Len(docLog) = 3
    /\ scorer = <<AlwaysRateLimited, AlwaysTimesOut, AlwaysRateLimited>>
    /\ LastResult.status = "error"
    /\ LastResult.error_message = AllChunksFailed

\* C9: every discovered document gets exactly one outcome, in discovery
\* order, with status success or error; no failure of a document aborts the
\* batch.
C9_OneOutcomePerDocument ==
    /\ mainPc # "aborted_batch"
    /\ mainPc \in {"batch", "done"} =>
        /\ Len(results) = docIdx - 1
        /\ \A i \in 1..Len(results) :
            /\ results[i].filename = documents[i].name
            /\ results[i].status \in {"success", "error"}
    /\ mainPc = "done" => Len(results) = Len(documents)

\* C23: when loading the configuration or scanning for documents fails,
\* the run ends there: no document is parsed, no chunk is handed to the
\* scorer, no remote call is made and no document outcome is produced.
C23_StartupErrorsEndTheRun ==
    /\ mainPc \in {"aborted_config", "aborted_scan"} => mainError # "none"
    /\ mainError # "none" =>
           /\ mainPc \in {"aborted_config", "aborted_scan"}
           /\ results = <<>>
           /\ docPc = "parse" /\ docIdx = 1
           /\ doc_chunks = <<>> /\ docLog = <<>>
           /\ calls = 0 /\ sleeps = <<>>

\* C23 witness: the configuration was loaded, the scan failed, and the run
\* has ended without any outcome.
C23_Witness ==
    /\ mainPc = "aborted_scan" /\ mainError = "scan"
    /\ results = <<>> /\ docLog = <<>>

\* C9 witness: a batch of two documents ended; the first could not be
\* parsed, the chunks of the second all failed; each has its outcome.
C9_Witness ==
    /\ mainPc = "done" /\ Len(documents) = 2 /\ Len(results) = 2
    /\ ~documents[1].readable /\ results[1].error_message = ParseFailed
    /\ documents[2].readable /\ results[2].error_message = AllChunksFailed

\* ------------------------------------------------- aggregator properties
SampleWeight == SumTo([i \in 1..Len(samples) |-> samples[i].weight], Len(samples))
SampleSum(d) ==
    SumTo([i \in 1..Len(samples) |-> samples[i].evaluation[d] * samples[i].weight],
          Len(samples))

WeightingExample ==
    << [evaluation |-> [d \in Dims |-> 5], weight |-> 10],
       [evaluation |-> [d \in Dims |-> 0], weight |-> 30] >>

\* C8: for a non-empty sample list of positive total weight the result is,
\* in each dimension, sum(value * weight) / sum(weight); all 5s at weight 10
\* with all 0s at weight 30 give 1.25 = 5/4 in every dimension.
C8_WeightedAverage ==
    (aggPc = "done" /\ Len(samples) > 0 /\ SampleWeight > 0) =>
        /\ ~average.raised
        /\ \A d \in Dims :
            /\ average.value[d].den > 0
            /\ average.value[d].num * SampleWeight
                   = SampleSum(d) * average.value[d].den
            /\ samples = WeightingExample =>
                   average.value[d].num * 4 = 5 * average.value[d].den

\* C8 witness: the example has been averaged.
C8_Witness ==
    /\ aggPc = "done" /\ samples = WeightingExample
    /\ average.value["clarity"] = [num |-> 50, den |-> 40]

\* C10: weighted_average fails (EmptyInput) on an empty sample list and on a
\* total weight of zero; it does not return a score then.
C10_EmptyInputFails ==
    (aggPc = "done" /\ (Len(samples) = 0 \/ SampleWeight = 0)) => average.raised

\* The orders the samples can be handed over in, and the samples in order p.
SampleOrders(n) ==
    {p \in [1..n -> 1..n] : \A i, j \in 1..n : p[i] = p[j] => i = j}
Permuted(p) == [i \in 1..Len(samples) |-> samples[p[i]]]

\* C22: weighted_average gives the same result, in every dimension, for
\* every order of the same samples (the weighted sums and the total weight
\* as exact integers).
C22_OrderIndependent ==
    aggPc = "done" =>
        \A p \in SampleOrders(Len(samples)) :
            weighted_average(Permuted(p)) = average

\* C22 witness: two samples of different scores and different positive
\* weights have been averaged.
C22_Witness ==
    /\ aggPc = "done" /\ Len(samples) = 2
    /\ samples[1].evaluation # samples[2].evaluation
    /\ samples[1].weight = 1 /\ samples[2].weight = 2
    /\ average.value["relevance"].num > 0

\* The least and the greatest value of dimension d over the samples.
MinOver(d) ==
    CHOOSE v \in {samples[i].evaluation[d] : i \in 1..Len(samples)} :
        \A i \in 1..Len(samples) : v <= samples[i].evaluation[d]
MaxOver(d) ==
    CHOOSE v \in {samples[i].evaluation[d] : i \in 1..Len(samples)} :
        \A i \in 1..Len(samples) : samples[i].evaluation[d] <= v

\* C28: for a non-empty list of samples of positive weights, each dimension
\* of the result lies between the least and the greatest value of that
\* dimension over the samples (min * sum(weight) <= sum(value * weight) <=
\* max * sum(weight)); scores within 0..5 give a result within 0..5.  The
\* scores and weights are integers, for which the sums are exact.
C28_WithinSampleRange ==
    ( /\ aggPc = "done" /\ Len(samples) > 0
      /\ \A i \in 1..Len(samples) : samples[i].weight > 0 ) =>
        \A d \in Dims :
            LET r == average.value[d]
            IN  /\ r.den > 0
                /\ MinOver(d) * r.den <= r.num
                /\ r.num <= MaxOver(d) * r.den
                /\ 0 <= r.num /\ r.num <= 5 * r.den

\* C28 witness: samples of relevance 4 and 5 at positive weights give a
\* relevance strictly between the two.
C28_Witness ==
    /\ aggPc = "done" /\ Len(samples) = 2
    /\ samples[1].weight > 0 /\ samples[2].weight > 0
    /\ MinOver("relevance") = 4 /\ MaxOver("relevance") = 5
    /\ 4 * average.value["relevance"].den < average.value["relevance"].num
    /\ average.value["relevance"].num < 5 * average.value["relevance"].den

====
